---- MODULE Spec2Model ----
(***************************************************************************)
(* Model of src/config.rs: ServerConfig::from_file (the configuration     *)
(* loader), the ServerConfig / ServerConfigPublic records and the          *)
(* projection From<&ServerConfig> for ServerConfigPublic.                  *)
(*                                                                         *)
(* Strings that the code formats (the path, the error messages) are        *)
(* sequences of tokens; a path is a sequence of one-character strings so   *)
(* that its {:?} rendering is computed character by character.  TOML       *)
(* integers are sign + magnitude, the magnitude in little-endian 16-bit    *)
(* limbs without leading zero limbs, so that the u32 / u64 / usize widths  *)
(* of the fields are kept.                                                 *)
(***************************************************************************)
EXTENDS Integers, Sequences, FiniteSets, TLC

VARIABLES
    config_path,  \* the &Path handed to from_file
    fs,           \* the filesystem entry config_path resolves to
    pc,           \* position of the running from_file call, "idle" when none
    file,         \* the File opened at line 30 (the inode it refers to)
    contents,     \* the String filled at line 33
    trace,        \* the checks the current / last call has performed
    seen,         \* what config_path resolved to during the current / last call
    results,      \* the values from_file returned since fs last changed
    config,       \* the ServerConfig shared by the request handlers
    loaded,       \* the value config had when it was constructed
    rpc,          \* position of each reader inside ServerConfigPublic::from
    view,         \* the ServerConfigPublic each reader builds
    v,            \* inputs of the projection (a pair of ServerConfig values)
    p             \* outputs of the projection for the pair

loaderVars == <<config_path, fs, pc, file, contents, trace, seen, results>>
sharedVars == <<config, loaded, rpc, view>>
projVars == <<v, p>>
vars == <<config_path, fs, pc, file, contents, trace, seen, results,
          config, loaded, rpc, view, v, p>>

----------------------------------------------------------------------------
(* Bounds *)

MaxPathLen == 1
MaxLines == 5
MaxCalls == 2
NumReaders == 2

----------------------------------------------------------------------------
(* Result<T, E> and Option<T> *)

Ok(x) == <<"Ok", x>>
Err(e) == <<"Err", e>>
IsOk(r) == r[1] = "Ok"
IsErr(r) == r[1] = "Err"
None == <<"None">>
Some(x) == <<"Some", x>>

----------------------------------------------------------------------------
(* Paths and their {:?} rendering *)

PathChars == {"a", "\""}

Paths == UNION {[1..n -> PathChars] : n \in 1..MaxPathLen}

\* char::escape_debug on the characters of the path
EscapeChar(c) ==
    IF c = "\"" THEN <<"\\", "\"">>
    ELSE IF c = "\\" THEN <<"\\", "\\">>
    ELSE <<c>>

RECURSIVE EscapeDebug(_)
EscapeDebug(s) ==
    IF s = <<>> THEN <<>>
    ELSE EscapeChar(Head(s)) \o EscapeDebug(Tail(s))

\* Mutant: the path written between quotes without escaping ({} for {:?})
DebugFmtRaw(path) == <<"\"">> \o path \o <<"\"">>

\* format!("{:?}", config_path)
DebugFmt(path) == <<"\"">> \o EscapeDebug(path) \o <<"\"">>

----------------------------------------------------------------------------
(* The error strings of from_file *)

\* format!("Config file at {:?} does not exist", config_path)
NotFoundMsg(path) ==
    <<"Config file at ">> \o DebugFmt(path) \o <<" does not exist">>

\* format!("Config file at {:?} is not a file", config_path)
NotAFileMsg(path) ==
    <<"Config file at ">> \o DebugFmt(path) \o <<" is not a file">>

\* format!("Could not open config file: {}", e)
OpenErrMsg(e) == <<"Could not open config file: ", e>>

\* format!("Could not read config file: {}", e)
ReadErrMsg(e) == <<"Could not read config file: ", e>>

\* format!("Could not deserialize config file: {}", e)
DeserializeErrMsg(e) == <<"Could not deserialize config file: ">> \o e

\* Display of the std::io::Error values the calls of from_file can meet
ENOENT == "No such file or directory (os error 2)"
EACCES == "Permission denied (os error 13)"
EISDIR == "Is a directory (os error 21)"
InvalidData == "stream did not contain valid UTF-8"

----------------------------------------------------------------------------
(* The lines a configuration source is made of *)

IntVal(neg, mag) == [ty |-> "int", neg |-> neg, mag |-> mag, s |-> ""]
StrVal(s) == [ty |-> "str", neg |-> FALSE, mag |-> <<>>, s |-> s]

KeyVal(k, x) == [t |-> "kv", key |-> k, val |-> x]
Garbage == [t |-> "garbage", key |-> "", val |-> StrVal("")]
BadBytes == [t |-> "bytes", key |-> "", val |-> StrVal("")]

\* The lines a writer of the source may emit, in the order it emits them.
Lines ==
    << KeyVal("max_backup_bytes", IntVal(FALSE, <<10000>>)),
       KeyVal("max_backup_bytes", IntVal(FALSE, <<0, 0, 1>>)),   \* 2^32
       KeyVal("max_backup_bytes", StrVal("large")),
       KeyVal("retention_days", IntVal(FALSE, <<100>>)),
       KeyVal("retention_days", IntVal(FALSE, <<0, 0, 1>>)),     \* 2^32
       KeyVal("backup_dir", StrVal("backups")),
       KeyVal("backup_dir", IntVal(FALSE, <<7>>)),
       KeyVal("io_threads", IntVal(FALSE, <<4>>)),
       KeyVal("io_threads", IntVal(TRUE, <<1>>)),                \* -1
       KeyVal("extra", IntVal(FALSE, <<1>>)),
       Garbage,
       BadBytes >>

LineIndex(l) == CHOOSE i \in 1..Len(Lines) : Lines[i] = l

\* The source of tests::read_config_file_ok (lines 91-94)
GoodDoc == <<Lines[1], Lines[4], Lines[6], Lines[8]>>

----------------------------------------------------------------------------
(* The filesystem entry config_path resolves to, and the calls made on it *)
(* Path::exists, Path::is_file and File::open all follow symbolic links, so *)
(* fs is the entry the path resolves to: nothing, a directory (standing for *)
(* every entry that is not a regular file) or a regular file with its       *)
(* permission and its lines.                                                *)

NoEntry == [kind |-> "none", readable |-> TRUE, lines |-> <<>>]
DirEntry == [kind |-> "dir", readable |-> TRUE, lines |-> <<>>]
FileEntry(r, ls) == [kind |-> "file", readable |-> r, lines |-> ls]

\* Mutant: the existence check left out
ExistsUnchecked(e) == TRUE

\* Path::exists: fs::metadata(path).is_ok()
Exists(e) == e.kind # "none"

\* Mutant: exists() called a second time where is_file() belongs
IsFileAsExists(e) == e.kind # "none"

\* Path::is_file: fs::metadata(path) succeeds and the entry is a regular file
IsFile(e) == e.kind = "file"

\* File::open(config_path): the handle keeps the inode, whatever happens to
\* the path afterwards
Open(e) ==
    IF e.kind = "none" THEN Err(ENOENT)
    ELSE IF ~e.readable THEN Err(EACCES)
    ELSE Ok([kind |-> e.kind, lines |-> e.lines])

\* file.read_to_string(&mut contents)
ReadToString(f) ==
    IF f.kind = "dir" THEN Err(EISDIR)
    ELSE IF \E i \in 1..Len(f.lines) : f.lines[i].t = "bytes" THEN Err(InvalidData)
    ELSE Ok(f.lines)

NoFile == [kind |-> "none", lines |-> <<>>]

----------------------------------------------------------------------------
(* toml::from_str into the derived Deserialize of ServerConfig *)

\* Field widths in 16-bit limbs
U64Limbs == 4
U32Limbs == 2
UsizeLimbs == 4

FieldNames == <<"max_backup_bytes", "retention_days", "backup_dir", "io_threads">>
FieldSet == {FieldNames[i] : i \in 1..Len(FieldNames)}

FieldType ==
    [max_backup_bytes |-> "u64", retention_days |-> "u32",
     backup_dir |-> "PathBuf", io_threads |-> "usize"]

FitsUnsigned(x, limbs) == x.ty = "int" /\ ~x.neg /\ Len(x.mag) <= limbs

\* Mutant: every integer field read as u32
ConvertAsU32(ty, x) ==
    IF ty = "PathBuf"
    THEN IF x.ty = "str" THEN Ok(x.s) ELSE Err(<<"invalid type, expected path string">>)
    ELSE IF FitsUnsigned(x, U32Limbs) THEN Ok(x.mag)
         ELSE Err(<<"invalid type or value, expected ", ty>>)

\* Deserialize of one field's value into the field's type
Convert(ty, x) ==
    IF ty = "PathBuf"
    THEN IF x.ty = "str" THEN Ok(x.s) ELSE Err(<<"invalid type, expected path string">>)
    ELSE LET limbs == IF ty = "u32" THEN U32Limbs
                      ELSE IF ty = "u64" THEN U64Limbs ELSE UsizeLimbs
         IN  IF FitsUnsigned(x, limbs) THEN Ok(x.mag)
             ELSE Err(<<"invalid type or value, expected ", ty>>)

\* The TOML document as a table: a syntax error or a key given twice is refused
TomlParse(text) ==
    IF \E i \in 1..Len(text) : text[i].t # "kv"
    THEN Err(<<"syntax error">>)
    ELSE IF \E i, j \in 1..Len(text) : i < j /\ text[i].key = text[j].key
    THEN Err(<<"duplicate key">>)
    ELSE Ok(text)

\* Mutant: #[serde(default)], a field that was not seen takes its default
BuildWithDefaults(acc) ==
    LET get(k, d) == IF acc[k] = None THEN d ELSE acc[k][2]
    IN  Ok([max_backup_bytes |-> get("max_backup_bytes", <<>>),
            retention_days |-> get("retention_days", <<>>),
            backup_dir |-> get("backup_dir", ""),
            io_threads |-> get("io_threads", <<>>)])

\* The end of the derived visit_map: every field must have been seen
Build(acc) ==
    IF \E i \in 1..Len(FieldNames) : acc[FieldNames[i]] = None
    THEN LET i == CHOOSE i \in 1..Len(FieldNames) :
                    /\ acc[FieldNames[i]] = None
                    /\ \A j \in 1..(i - 1) : acc[FieldNames[j]] # None
         IN  Err(<<"missing field ", FieldNames[i]>>)
    ELSE Ok([max_backup_bytes |-> acc["max_backup_bytes"][2],
             retention_days |-> acc["retention_days"][2],
             backup_dir |-> acc["backup_dir"][2],
             io_threads |-> acc["io_threads"][2]])

\* The derived visit_map: entries in document order, unknown keys skipped
RECURSIVE VisitMap(_, _)
VisitMap(entries, acc) ==
    IF entries = <<>> THEN Build(acc)
    ELSE LET e == Head(entries)
         IN  IF e.key \in FieldSet
             THEN LET c == Convert(FieldType[e.key], e.val)
                  IN  IF IsErr(c)
                      THEN Err(c[2] \o <<" for key ", e.key>>)
                      ELSE VisitMap(Tail(entries), [acc EXCEPT ![e.key] = Some(c[2])])
             ELSE VisitMap(Tail(entries), acc)

\* toml::from_str::<ServerConfig>(&contents)
FromStr(text) ==
    LET t == TomlParse(text)
    IN  IF IsErr(t) THEN t
        ELSE VisitMap(t[2], [k \in FieldSet |-> None])

----------------------------------------------------------------------------
(* ServerConfig::from_file, one action per check *)

\* the caller invokes from_file(config_path)
Call ==
    /\ pc = "idle"
    /\ Len(results) < MaxCalls
    /\ pc' = "exists"
    /\ trace' = <<>>
    /\ seen' = {fs.kind}
    /\ UNCHANGED <<config_path, fs, file, contents, results>>
    /\ UNCHANGED sharedVars /\ UNCHANGED projVars

\* `return r`: the locals are dropped and the caller holds r
Return(r) ==
    /\ pc' = "idle"
    /\ results' = Append(results, r)
    /\ file' = NoFile
    /\ contents' = <<>>

\* lines 24-26
CheckExists ==
    /\ pc = "exists"
    /\ trace' = Append(trace, "exists")
    /\ IF ~Exists(fs)
       THEN Return(Err(NotFoundMsg(config_path)))
       ELSE pc' = "is_file" /\ UNCHANGED <<file, contents, results>>
    /\ UNCHANGED <<config_path, fs, seen>>
    /\ UNCHANGED sharedVars /\ UNCHANGED projVars

\* lines 27-29
CheckIsFile ==
    /\ pc = "is_file"
    /\ trace' = Append(trace, "is_file")
    /\ IF ~IsFile(fs)
       THEN Return(Err(NotAFileMsg(config_path)))
       ELSE pc' = "open" /\ UNCHANGED <<file, contents, results>>
    /\ UNCHANGED <<config_path, fs, seen>>
    /\ UNCHANGED sharedVars /\ UNCHANGED projVars

\* Mutant: File::create for File::open, which truncates the file
OpenFileCreate ==
    /\ pc = "open"
    /\ trace' = Append(trace, "open")
    /\ LET r == Open(fs)
       IN  IF IsErr(r)
           THEN Return(Err(OpenErrMsg(r[2]))) /\ fs' = fs
           ELSE /\ pc' = "read"
                /\ fs' = FileEntry(fs.readable, <<>>)
                /\ file' = [kind |-> "file", lines |-> <<>>]
                /\ UNCHANGED <<contents, results>>
    /\ UNCHANGED <<config_path, seen>>
    /\ UNCHANGED sharedVars /\ UNCHANGED projVars

\* lines 30-31
OpenFile ==
    /\ pc = "open"
    /\ trace' = Append(trace, "open")
    /\ LET r == Open(fs)
       IN  IF IsErr(r)
           THEN Return(Err(OpenErrMsg(r[2])))
           ELSE pc' = "read" /\ file' = r[2] /\ UNCHANGED <<contents, results>>
    /\ UNCHANGED <<config_path, fs, seen>>
    /\ UNCHANGED sharedVars /\ UNCHANGED projVars

\* Mutant: .unwrap() on the read, which panics where the code maps the error
ReadFileUnwrap ==
    /\ pc = "read"
    /\ trace' = Append(trace, "read")
    /\ LET r == ReadToString(file)
       IN  IF IsErr(r)
           THEN pc' = "panic" /\ UNCHANGED <<file, contents, results>>
           ELSE pc' = "from_str" /\ contents' = r[2] /\ UNCHANGED <<file, results>>
    /\ UNCHANGED <<config_path, fs, seen>>
    /\ UNCHANGED sharedVars /\ UNCHANGED projVars

\* lines 32-34
ReadFile ==
    /\ pc = "read"
    /\ trace' = Append(trace, "read")
    /\ LET r == ReadToString(file)
       IN  IF IsErr(r)
           THEN Return(Err(ReadErrMsg(r[2])))
           ELSE pc' = "from_str" /\ contents' = r[2] /\ UNCHANGED <<file, results>>
    /\ UNCHANGED <<config_path, fs, seen>>
    /\ UNCHANGED sharedVars /\ UNCHANGED projVars

\* lines 37-38
Deserialize ==
    /\ pc = "from_str"
    /\ trace' = Append(trace, "from_str")
    /\ LET r == FromStr(contents)
       IN  IF IsErr(r)
           THEN Return(Err(DeserializeErrMsg(r[2])))
           ELSE Return(r)
    /\ UNCHANGED <<config_path, fs, seen>>
    /\ UNCHANGED sharedVars /\ UNCHANGED projVars

FromFile == Call \/ CheckExists \/ CheckIsFile \/ OpenFile \/ ReadFile \/ Deserialize

----------------------------------------------------------------------------
(* What other programs do to the entry at config_path *)

\* The entry becomes e.  Results returned for the old entry are forgotten;
\* a running call goes on, and what the path resolved to meanwhile is kept.
Changed(e) ==
    /\ fs' = e
    /\ results' = <<>>
    /\ IF pc = "idle"
       THEN trace' = <<>> /\ seen' = {}
       ELSE trace' = trace /\ seen' = seen \cup {e.kind}
    /\ UNCHANGED <<config_path, pc, file, contents>>
    /\ UNCHANGED sharedVars /\ UNCHANGED projVars

\* Between calls of from_file
CreateFile == pc = "idle" /\ fs.kind = "none" /\ Changed(FileEntry(TRUE, <<>>))

MkDir == pc = "idle" /\ fs.kind = "none" /\ Changed(DirEntry)

Unlink == pc = "idle" /\ fs.kind # "none" /\ Changed(NoEntry)

Chmod ==
    /\ pc = "idle"
    /\ fs.kind = "file"
    /\ Changed(FileEntry(~fs.readable, fs.lines))

AppendLine(i) ==
    /\ pc = "idle"
    /\ fs.kind = "file"
    /\ Len(fs.lines) < MaxLines
    /\ fs.lines # <<>> => LineIndex(fs.lines[Len(fs.lines)]) < i
    /\ Changed(FileEntry(fs.readable, Append(fs.lines, Lines[i])))

\* At any time, also while from_file runs
RaceDocs == {<<>>, GoodDoc}

RaceCreate(d) == fs.kind = "none" /\ Changed(FileEntry(TRUE, d))

RaceReplace(d) ==
    /\ fs.kind = "file"
    /\ fs.lines # d
    /\ Changed(FileEntry(TRUE, d))

RaceMkDir == fs.kind = "none" /\ Changed(DirEntry)

RaceUnlink == fs.kind # "none" /\ Changed(NoEntry)

----------------------------------------------------------------------------
(* ServerConfigPublic and its readers *)

\* Mutant: the projection also carries io_threads
FromLeaky(other) ==
    [max_backup_bytes |-> other.max_backup_bytes,
     retention_days |-> other.retention_days,
     io_threads |-> other.io_threads]

\* impl From<&ServerConfig> for ServerConfigPublic
From(other) ==
    [max_backup_bytes |-> other.max_backup_bytes,
     retention_days |-> other.retention_days]

\* ServerConfig values from_file returns for suitable sources
Configs ==
    [max_backup_bytes : {<<10000>>, <<0, 0, 1>>},
     retention_days : {<<100>>, <<180>>},
     backup_dir : {"backups", "/var/backups"},
     io_threads : {<<4>>, <<8>>}]

Readers == 1..NumReaders

\* a request handler takes the shared reference &config
Borrow(r) ==
    /\ rpc[r] = "idle"
    /\ rpc' = [rpc EXCEPT ![r] = "from"]
    /\ UNCHANGED <<config, loaded, view>>
    /\ UNCHANGED loaderVars /\ UNCHANGED projVars

\* Mutant: the projection takes the fields out of the config (&mut, mem::take)
ProjectTake(r) ==
    /\ rpc[r] = "from"
    /\ view' = [view EXCEPT ![r] = Some(From(config))]
    /\ rpc' = [rpc EXCEPT ![r] = "serve"]
    /\ config' = [config EXCEPT !.max_backup_bytes = <<>>, !.retention_days = <<>>]
    /\ UNCHANGED loaded
    /\ UNCHANGED loaderVars /\ UNCHANGED projVars

\* ServerConfigPublic::from(&config)
Project(r) ==
    /\ rpc[r] = "from"
    /\ view' = [view EXCEPT ![r] = Some(From(config))]
    /\ rpc' = [rpc EXCEPT ![r] = "serve"]
    /\ UNCHANGED <<config, loaded>>
    /\ UNCHANGED loaderVars /\ UNCHANGED projVars

\* the view is serialized and dropped
Serve(r) ==
    /\ rpc[r] = "serve"
    /\ view' = [view EXCEPT ![r] = None]
    /\ rpc' = [rpc EXCEPT ![r] = "idle"]
    /\ UNCHANGED <<config, loaded>>
    /\ UNCHANGED loaderVars /\ UNCHANGED projVars

\* the projection applied to one of a pair of configs
Apply(i) ==
    /\ p[i] = None
    /\ p' = [p EXCEPT ![i] = Some(From(v[i]))]
    /\ UNCHANGED v
    /\ UNCHANGED loaderVars /\ UNCHANGED sharedVars

----------------------------------------------------------------------------
(* Specifications *)

LoaderIdle ==
    /\ fs = NoEntry /\ pc = "idle" /\ file = NoFile /\ contents = <<>>
    /\ trace = <<>> /\ seen = {} /\ results = <<>>

NoReaders ==
    /\ rpc = [r \in Readers |-> "idle"]
    /\ view = [r \in Readers |-> None]

NoPair == v = <<>> /\ p = <<>>

\* The loader, the source changing between calls only
Init ==
    /\ config_path \in Paths
    /\ LoaderIdle
    /\ config = None /\ loaded = None /\ NoReaders
    /\ NoPair

Next ==
    \/ Call
    \/ CheckExists
    \/ CheckIsFile
    \/ OpenFile
    \/ ReadFile
    \/ Deserialize
    \/ CreateFile
    \/ MkDir
    \/ Unlink
    \/ Chmod
    \/ \E i \in 1..Len(Lines) : AppendLine(i)

Spec == Init /\ [][Next]_vars

\* The loader, the entry at the path changing while from_file runs
NextRace ==
    \/ Call
    \/ CheckExists
    \/ CheckIsFile
    \/ OpenFile
    \/ ReadFile
    \/ Deserialize
    \/ \E d \in RaceDocs : RaceCreate(d)
    \/ \E d \in RaceDocs : RaceReplace(d)
    \/ RaceMkDir
    \/ RaceUnlink

SpecRace == Init /\ [][NextRace]_vars

\* The request handlers sharing a constructed ServerConfig
InitShared ==
    /\ config_path \in Paths
    /\ LoaderIdle
    /\ config \in Configs /\ loaded = config /\ NoReaders
    /\ NoPair

NextShared ==
    \/ \E r \in Readers : Borrow(r)
    \/ \E r \in Readers : Project(r)
    \/ \E r \in Readers : Serve(r)

SpecShared == InitShared /\ [][NextShared]_vars

\* The projection as a function of its argument
InitProj ==
    /\ config_path \in Paths
    /\ LoaderIdle
    /\ config = None /\ loaded = None /\ NoReaders
    /\ v \in Configs \X Configs
    /\ p = <<None, None>>

NextProj == \E i \in 1..2 : Apply(i)

SpecProj == InitProj /\ [][NextProj]_vars

----------------------------------------------------------------------------
(* Vocabulary of the properties *)

Returned == pc = "idle" /\ results # <<>>
Last == results[Len(results)]

\* The four error kinds, told apart by the text of the message
IsNotFound(r) ==
    /\ IsErr(r) /\ Len(r[2]) >= 2
    /\ r[2][1] = "Config file at " /\ r[2][Len(r[2])] = " does not exist"
IsNotAFile(r) ==
    /\ IsErr(r) /\ Len(r[2]) >= 2
    /\ r[2][1] = "Config file at " /\ r[2][Len(r[2])] = " is not a file"
IsIoError(r) ==
    /\ IsErr(r) /\ Len(r[2]) >= 2
    /\ r[2][1] \in {"Could not open config file: ", "Could not read config file: "}
IsParseError(r) ==
    /\ IsErr(r) /\ Len(r[2]) >= 2
    /\ r[2][1] = "Could not deserialize config file: "
IsConfig(r) == IsOk(r) /\ DOMAIN r[2] = FieldSet

KindOf(r) ==
    IF IsConfig(r) THEN "Ok"
    ELSE IF IsNotFound(r) THEN "NotFound"
    ELSE IF IsNotAFile(r) THEN "NotAFile"
    ELSE IF IsIoError(r) THEN "IoError"
    ELSE IF IsParseError(r) THEN "ParseError"
    ELSE "unclassified"

\* The part of a NotFound / NotAFile message between the fixed texts
Rendering(r) == SubSeq(r[2], 2, Len(r[2]) - 1)

\* Reading a quoted, escaped rendering back: the path it denotes, if any
RECURSIVE Unescape(_)
Unescape(s) ==
    IF s = <<>> THEN Some(<<>>)
    ELSE IF Head(s) = "\"" THEN None
    ELSE IF Head(s) = "\\"
    THEN IF Len(s) < 2 THEN None
         ELSE LET rest == Unescape(Tail(Tail(s)))
              IN  IF rest = None THEN None ELSE Some(<<s[2]>> \o rest[2])
    ELSE LET rest == Unescape(Tail(s))
         IN  IF rest = None THEN None ELSE Some(<<Head(s)>> \o rest[2])

Unquote(s) ==
    IF Len(s) < 2 \/ s[1] # "\"" \/ s[Len(s)] # "\"" THEN None
    ELSE Unescape(SubSeq(s, 2, Len(s) - 1))

\* What a source says, read off its lines
Text(ls) == \A i \in 1..Len(ls) : ls[i].t # "bytes"
HasKey(ls, k) == \E i \in 1..Len(ls) : ls[i].t = "kv" /\ ls[i].key = k
ValidValue(k, x) ==
    IF k = "backup_dir" THEN x.ty = "str"
    ELSE /\ x.ty = "int" /\ ~x.neg
         /\ Len(x.mag) <= (IF k = "retention_days" THEN 2 ELSE 4)
Mistyped(ls, k) ==
    \E i \in 1..Len(ls) : ls[i].t = "kv" /\ ls[i].key = k /\ ~ValidValue(k, ls[i].val)
WellFormed(ls) ==
    /\ \A i \in 1..Len(ls) : ls[i].t = "kv"
    /\ \A i, j \in 1..Len(ls) : ls[i].key = ls[j].key => i = j
    /\ \A k \in FieldSet : HasKey(ls, k) /\ ~Mistyped(ls, k)
Written(ls, k) ==
    LET i == CHOOSE i \in 1..Len(ls) : ls[i].key = k
    IN  IF k = "backup_dir" THEN ls[i].val.s ELSE ls[i].val.mag

ReadableFile(e) == e.kind = "file" /\ e.readable /\ Text(e.lines)

\* The earliest check an entry fails, and the number of checks up to it
ExpectedKind(e) ==
    IF e.kind = "none" THEN "NotFound"
    ELSE IF e.kind # "file" THEN "NotAFile"
    ELSE IF ~e.readable \/ ~Text(e.lines) THEN "IoError"
    ELSE IF ~WellFormed(e.lines) THEN "ParseError"
    ELSE "Ok"
ChecksDone(e) ==
    IF e.kind = "none" THEN 1
    ELSE IF e.kind # "file" THEN 2
    ELSE IF ~e.readable THEN 3
    ELSE IF ~Text(e.lines) THEN 4
    ELSE 5
Checks == <<"exists", "is_file", "open", "read", "from_str">>

----------------------------------------------------------------------------
(* Properties *)

\* C1: the checks run in the order exists, is_file, open and read, parse; the
\* call stops at the first that fails, so the error returned is the one of the
\* earliest failing check and no later check is performed.
C1_CheckOrder ==
    /\ Len(trace) <= Len(Checks)
    /\ trace = SubSeq(Checks, 1, Len(trace))
    /\ Returned =>
         /\ KindOf(Last) = ExpectedKind(fs)
         /\ trace = SubSeq(Checks, 1, ChecksDone(fs))

\* an unreadable file with a malformed source: IoError wins over ParseError
C1_Witness ==
    /\ Returned /\ fs.kind = "file" /\ ~fs.readable /\ ~WellFormed(fs.lines)
    /\ IsIoError(Last)

\* C2: for a path with no filesystem entry from_file returns NotFound, the
\* message carries the debug rendering of exactly that path, and no
\* ServerConfig is produced.
C2_NotFound ==
    (Returned /\ fs.kind = "none") =>
        /\ IsNotFound(Last)
        /\ Unquote(Rendering(Last)) = Some(config_path)
        /\ \A i \in 1..Len(results) : ~IsOk(results[i])

C2_Witness ==
    /\ Returned /\ fs.kind = "none" /\ IsNotFound(Last)
    /\ \E i \in 1..Len(config_path) : config_path[i] = "\""

\* C3: for an existing entry that is not a regular file from_file returns
\* NotAFile with the same path rendering, never NotFound, IoError or
\* ParseError, and the file is never opened.
C3_NotAFile ==
    /\ fs.kind = "dir" =>
         /\ file = NoFile
         /\ \A i \in 1..Len(trace) : trace[i] \notin {"open", "read", "from_str"}
    /\ (Returned /\ fs.kind = "dir") =>
         /\ IsNotAFile(Last)
         /\ Unquote(Rendering(Last)) = Some(config_path)
         /\ ~IsNotFound(Last) /\ ~IsIoError(Last) /\ ~IsParseError(Last)
         /\ ~IsOk(Last)

C3_Witness ==
    /\ Returned /\ fs.kind = "dir" /\ IsNotAFile(Last)
    /\ trace = <<"exists", "is_file">>

\* C4: a readable regular file that lacks one or more of the four required
\* keys, or gives one a value of the wrong type, yields ParseError; a
\* ServerConfig returned has every field taken from the source.
C4_MissingOrMistyped ==
    /\ ( /\ Returned /\ ReadableFile(fs)
         /\ \E k \in FieldSet : ~HasKey(fs.lines, k) \/ Mistyped(fs.lines, k) )
       => IsParseError(Last)
    /\ \A i \in 1..Len(results) :
         IsOk(results[i]) =>
           /\ DOMAIN results[i][2] = FieldSet
           /\ \A k \in FieldSet :
                HasKey(fs.lines, k) /\ results[i][2][k] = Written(fs.lines, k)

\* exactly one key missing, everything else in order
C4_Witness ==
    /\ Returned /\ ReadableFile(fs) /\ IsParseError(Last)
    /\ \A i \in 1..Len(fs.lines) : fs.lines[i].t = "kv"
    /\ Cardinality({k \in FieldSet : HasKey(fs.lines, k)}) = 3
    /\ \A k \in FieldSet : ~Mistyped(fs.lines, k)

\* C5: the projection of v has max_backup_bytes and retention_days of v and
\* nothing else, and two configs that agree on these two fields have the same
\* projection whatever their backup_dir and io_threads.
C5_Projection ==
    /\ \A i \in 1..Len(p) :
         p[i] # None =>
           /\ DOMAIN p[i][2] = {"max_backup_bytes", "retention_days"}
           /\ p[i][2].max_backup_bytes = v[i].max_backup_bytes
           /\ p[i][2].retention_days = v[i].retention_days
    /\ ( /\ Len(p) = 2 /\ p[1] # None /\ p[2] # None
         /\ v[1].max_backup_bytes = v[2].max_backup_bytes
         /\ v[1].retention_days = v[2].retention_days )
       => p[1] = p[2]

C5_Witness ==
    /\ Len(p) = 2 /\ p[1] # None /\ p[2] # None
    /\ v[1].backup_dir # v[2].backup_dir /\ v[1].io_threads # v[2].io_threads
    /\ p[1] = p[2]

\* C6: from_file never gets stuck or panics (every position of a call has a
\* step, and a call is at most five steps long) and returns exactly one of the
\* five outcomes (a fully populated ServerConfig, NotFound, NotAFile, IoError,
\* ParseError); contents that are not valid UTF-8 give IoError.
C6_TotalDisjoint ==
    /\ pc \in {"idle", "exists", "is_file", "open", "read", "from_str"}
    /\ pc # "idle" =>
         ENABLED (CheckExists \/ CheckIsFile \/ OpenFile \/ ReadFile \/ Deserialize)
    /\ pc # "idle" => Len(trace) < Len(Checks) /\ pc = Checks[Len(trace) + 1]
    /\ \A i \in 1..Len(results) :
         Cardinality({k \in 1..5 :
            \/ k = 1 /\ IsConfig(results[i])
            \/ k = 2 /\ IsNotFound(results[i])
            \/ k = 3 /\ IsNotAFile(results[i])
            \/ k = 4 /\ IsIoError(results[i])
            \/ k = 5 /\ IsParseError(results[i])}) = 1
    /\ (Returned /\ fs.kind = "file" /\ fs.readable /\ ~Text(fs.lines))
       => IsIoError(Last)

C6_Witness ==
    /\ Returned /\ fs.kind = "file" /\ fs.readable /\ ~Text(fs.lines)
    /\ Last = Err(ReadErrMsg(InvalidData))

\* C7: a well-formed source in a readable regular file loads: the result is
\* Ok and its four fields are the values written in the source.
C7_WellFormedLoads ==
    /\ (Returned /\ ReadableFile(fs) /\ WellFormed(fs.lines)) =>
         /\ IsConfig(Last)
         /\ \A k \in FieldSet : Last[2][k] = Written(fs.lines, k)
    /\ (Returned /\ fs = FileEntry(TRUE, GoodDoc)) =>
         Last = Ok([max_backup_bytes |-> <<10000>>, retention_days |-> <<100>>,
                    backup_dir |-> "backups", io_threads |-> <<4>>])

C7_Witness ==
    /\ Returned /\ ReadableFile(fs) /\ WellFormed(fs.lines) /\ IsOk(Last)
    /\ Last[2].max_backup_bytes = <<0, 0, 1>>

\* C8: calls of from_file on an unchanged source return equal results, and no
\* step of from_file changes the filesystem.
C8_Deterministic ==
    /\ [](\A i, j \in 1..Len(results) : results[i] = results[j])
    /\ [][(pc # "idle" \/ pc' # "idle") => fs' = fs]_vars

C8_Witness ==
    /\ pc = "idle" /\ Len(results) >= 2
    /\ IsOk(results[1]) /\ IsOk(results[2])

\* C9: no operation writes to a constructed ServerConfig: whatever the
\* interleaving of the readers' projections, the config equals the loaded
\* value and all readers see the same max_backup_bytes and retention_days.
C9_SharedImmutable ==
    /\ config = loaded
    /\ \A r \in Readers :
         view[r] # None =>
           /\ view[r][2].max_backup_bytes = loaded.max_backup_bytes
           /\ view[r][2].retention_days = loaded.retention_days
    /\ \A r1, r2 \in Readers :
         (view[r1] # None /\ view[r2] # None) => view[r1] = view[r2]

\* two readers hold a projection at the same time
C9_Witness ==
    \E r1, r2 \in Readers : r1 # r2 /\ rpc[r1] = "serve" /\ rpc[r2] = "serve"

\* C10: also when the entry at the path is created, removed or replaced while
\* from_file runs, NotAFile is returned only if the path referred, at some
\* moment of the call, to an existing entry that was not a regular file, and
\* NotFound only if at some moment it had no entry.
C10_ErrorsNameCondition ==
    Returned =>
        /\ IsNotAFile(Last) => \E k \in seen : k \notin {"none", "file"}
        /\ IsNotFound(Last) => "none" \in seen

====
